---------------------------- MODULE Spec2Model ----------------------------
(***************************************************************************)
(* A model of the Gitea provider adapter of go-git-providers:              *)
(*   gitea/client.go                    NewClient, newClient, Client       *)
(*   gitea/client_repositories_org.go   OrgRepositoriesClient and helpers  *)
(* A Go pointer is a sequence: <<>> is nil, <<v>> points to v.             *)
(* The hosted service (reached through the wrapped SDK) is the variable    *)
(* repos: a function from the names of the repositories that exist to the  *)
(* repository object the service holds for each.                           *)
(***************************************************************************)
EXTENDS Integers, Sequences, FiniteSets, TLC

VARIABLES
    opts,      \* the options NewClient was called with (never written again)
    heap,      \* address -> clientContext: the contexts allocated by newClient
    client,    \* the Client struct: the context pointer of each (sub-)client
    repos,     \* the service: name -> repository object, for the names that exist
    last,      \* the call that returned last, its arguments and its results
    listIn,    \* the pages the service answers ListOrgRepos with (SpecList)
    listOut,   \* what List returned for listIn (SpecList)
    licIn,     \* a translated request and the create options (SpecLicense)
    licOut,    \* the request after the options were applied (SpecLicense)
    pc,        \* per concurrent client: where its Reconcile stands (SpecConc)
    want,      \* the reference and desired state both clients reconcile (SpecConc)
    got,       \* per concurrent client: the result of its Reconcile (SpecConc)
    created    \* name -> number of times the service created it (SpecConc)

vars == <<opts, heap, client, repos, last, listIn, listOut, licIn, licOut,
          pc, want, got, created>>

----------------------------------------------------------------------------
(* Bounds of the model. *)

MaxPages == 2      \* pages the service holds for one listing
MaxPageLen == 2    \* items on one page

----------------------------------------------------------------------------
(* Values. *)

DefaultDomain == "gitea.com"
ProviderID == "gitea"

ErrNone == "nil"
ErrNotFound == "ErrNotFound"
ErrAlreadyExists == "ErrAlreadyExists"
ErrDestructiveCallDisallowed == "ErrDestructiveCallDisallowed"
ErrNoProviderSupport == "ErrNoProviderSupport"
ErrValidation == "ValidationError"
ErrHTTP == "HTTPError"

knownLicenseTemplateMap ==
    [k \in {"apache-2.0", "mit", "gpl-3.0"} |->
        CASE k = "apache-2.0" -> "Apache-2.0"
          [] k = "mit" -> "MIT"
          [] k = "gpl-3.0" -> "GPL-3.0-only"]

\* A Go map lookup: the zero value for a key the map does not hold.
MapLookup(m, k) == IF k \in DOMAIN m THEN m[k] ELSE ""

----------------------------------------------------------------------------
(* Inputs the actions draw from. *)

Token == "token"
OtherDomains == {"https://localhost:3000"}
SchemeDomains == {"https://localhost:3000"}   \* the domains holding "://"
ForeignDomain == "github.com"
OrgName == "org"
Names == {"repo-a", "repo-b"}

ClientOptionSets ==
    [Domain : {<<>>} \cup {<<d>> : d \in OtherDomains},
     EnableDestructiveAPICalls : {<<>>, <<TRUE>>, <<FALSE>>}]

KnownVisibilities == {"public", "private"}

\* Desired states a caller passes: unset fields, set fields, an unknown visibility.
InfoSet ==
    { [Description |-> <<>>, DefaultBranch |-> <<>>, Visibility |-> <<>>],
      [Description |-> <<>>, DefaultBranch |-> <<"dev">>, Visibility |-> <<"public">>],
      [Description |-> <<"d">>, DefaultBranch |-> <<"main">>, Visibility |-> <<"private">>],
      [Description |-> <<"d">>, DefaultBranch |-> <<"dev">>, Visibility |-> <<"bogus">>] }

\* How one SDK call of an operation goes wrong: at = 0 is no failure, at = k hits
\* the k-th SDK call; "transport" is an HTTP failure the service never processed,
\* "malformed" a processed request answered with an incomplete object.
Faults ==
    {[at |-> 0, how |-> "none"]} \cup
    [at : {1, 2}, how : {"transport", "malformed"}]

FaultOf(fault, k) == IF fault.at = k THEN fault.how ELSE "none"

NoCreateOptions == [AutoInit |-> <<>>, LicenseTemplate |-> <<>>]

----------------------------------------------------------------------------
(* client.go: construction.  The context is allocated once, at address 1,   *)
(* and every (sub-)client of the Client struct holds a pointer to it.       *)

SubClients == {"clientContext", "orgs", "orgRepos", "userRepos"}

\* A slip newClient could make: the organization-repository client given a copy
\* of the context instead of the pointer to it.
newClient_copies(c, domain, destructiveActions) ==
    LET ctx == [c |-> c, domain |-> domain, destructiveActions |-> destructiveActions]
    IN  [heap |-> (1 :> ctx) @@ (2 :> ctx),
         client |-> [s \in SubClients |-> IF s = "orgRepos" THEN 2 ELSE 1]]

newClient(c, domain, destructiveActions) ==
    LET ctx == [c |-> c, domain |-> domain, destructiveActions |-> destructiveActions]
    IN  [heap |-> (1 :> ctx),
         client |-> [s \in SubClients |-> 1]]

NewClient(token, o) ==
    LET domain == IF o.Domain # <<>> THEN o.Domain[1] ELSE DefaultDomain
        baseURL == IF domain \in SchemeDomains
                   THEN <<domain>>
                   ELSE <<"https://", domain, "/">>
        gt == [baseURL |-> baseURL, token |-> token]
        destructiveActions ==
            IF o.EnableDestructiveAPICalls # <<>>
            THEN o.EnableDestructiveAPICalls[1]
            ELSE FALSE
    IN  newClient(gt, domain, destructiveActions)

\* The embedded *clientContext of a (sub-)client.
Ctx(sub) == heap[client[sub]]

----------------------------------------------------------------------------
(* The wrapped SDK and the service behind it.  A response is the triple     *)
(* (object, httpResponse, error) of the SDK: obj is a pointer, status the   *)
(* HTTP status, err whether the SDK reported an error.                      *)

Resp(obj, status, err) == [obj |-> obj, status |-> status, err |-> err]

\* An object the service answers with when it leaves out a required field.
Malform(obj) == [obj EXCEPT !.Name = ""]

Answer(obj, status, how) ==
    Resp(<<IF how = "malformed" THEN Malform(obj) ELSE obj>>, status, FALSE)

SdkGetRepo(rs, owner, repo, how) ==
    IF how = "transport" THEN Resp(<<>>, 500, TRUE)
    ELSE IF repo \notin DOMAIN rs THEN Resp(<<>>, 404, TRUE)
    ELSE Answer(rs[repo], 200, how)

\* The service creates a name atomically: a name that exists is a conflict.
SdkCreateRepo(rs, apiOpts, how) ==
    IF how = "transport" THEN [repos |-> rs, resp |-> Resp(<<>>, 500, TRUE)]
    ELSE IF apiOpts.Name \in DOMAIN rs
    THEN [repos |-> rs, resp |-> Resp(<<>>, 409, TRUE)]
    ELSE LET obj == [Name |-> apiOpts.Name,
                     Description |-> apiOpts.Description,
                     DefaultBranch |-> apiOpts.DefaultBranch,
                     Private |-> apiOpts.Private]
         IN  [repos |-> (apiOpts.Name :> obj) @@ rs,
              resp |-> Answer(obj, 201, how)]

SdkCreateOrgRepo(rs, orgName, apiOpts, how) == SdkCreateRepo(rs, apiOpts, how)

SdkEditRepo(rs, owner, repo, edit, how) ==
    IF how = "transport" THEN [repos |-> rs, resp |-> Resp(<<>>, 500, TRUE)]
    ELSE IF repo \notin DOMAIN rs
    THEN [repos |-> rs, resp |-> Resp(<<>>, 404, TRUE)]
    ELSE LET obj == [Name |-> repo,
                     Description |-> edit.Description,
                     DefaultBranch |-> edit.DefaultBranch,
                     Private |-> edit.Private]
         IN  [repos |-> [rs EXCEPT ![repo] = obj],
              resp |-> Answer(obj, 200, how)]

SdkDeleteRepo(rs, owner, repo, how) ==
    IF how = "transport" THEN [repos |-> rs, resp |-> Resp(<<>>, 500, TRUE)]
    ELSE IF repo \notin DOMAIN rs
    THEN [repos |-> rs, resp |-> Resp(<<>>, 404, TRUE)]
    ELSE [repos |-> [n \in DOMAIN rs \ {repo} |-> rs[n]],
          resp |-> Resp(<<>>, 204, FALSE)]

----------------------------------------------------------------------------
(* Validation and translation helpers. *)

\* An SDK error classified by the HTTP status of its response.
handleHTTPError(res, err) ==
    IF ~err THEN ErrNone
    ELSE IF res.status = 404 THEN ErrNotFound
    ELSE IF res.status = 409 THEN ErrAlreadyExists
    ELSE ErrHTTP

\* Structural completeness of an API object: its required field is present.
validateRepositoryAPI(apiObj) ==
    IF apiObj.Name = "" THEN ErrValidation ELSE ErrNone

\* A slip: the SDK error returned without classifying it by its HTTP status.
validateRepositoryAPIResp_unclassified(resp) ==
    IF resp.err
    THEN [obj |-> <<>>, err |-> ErrHTTP]
    ELSE IF validateRepositoryAPI(resp.obj[1]) # ErrNone
    THEN [obj |-> <<>>, err |-> validateRepositoryAPI(resp.obj[1])]
    ELSE [obj |-> resp.obj, err |-> ErrNone]

validateRepositoryAPIResp(resp) ==
    IF resp.err
    THEN [obj |-> <<>>, err |-> handleHTTPError(resp, resp.err)]
    ELSE IF validateRepositoryAPI(resp.obj[1]) # ErrNone
    THEN [obj |-> <<>>, err |-> validateRepositoryAPI(resp.obj[1])]
    ELSE [obj |-> resp.obj, err |-> ErrNone]

\* The reference must name the client's domain, an organization and a repository.
validateOrgRepositoryRef(ref, domain) ==
    IF ref.Domain = domain /\ ref.Organization # "" /\ ref.RepositoryName # ""
    THEN ErrNone ELSE ErrValidation

validateOrganizationRef(ref, domain) ==
    IF ref.Domain = domain /\ ref.Organization # ""
    THEN ErrNone ELSE ErrValidation

\* gitprovider.ValidateAndDefaultInfo: an unknown visibility is invalid; a valid
\* request leaves fully populated.
ValidateAndDefaultInfo(req) ==
    IF req.Visibility # <<>> /\ req.Visibility[1] \notin KnownVisibilities
    THEN [err |-> ErrValidation, req |-> req]
    ELSE [err |-> ErrNone,
          req |-> [Description |-> IF req.Description = <<>>
                                   THEN <<"">> ELSE req.Description,
                   DefaultBranch |-> IF req.DefaultBranch = <<>>
                                     THEN <<"main">> ELSE req.DefaultBranch,
                   Visibility |-> IF req.Visibility = <<>>
                                  THEN <<"private">> ELSE req.Visibility]]

ValidateInfo(req) ==
    IF req.Visibility # <<>> /\ req.Visibility[1] \notin KnownVisibilities
    THEN ErrValidation ELSE ErrNone

\* RepositoryInfo -> CreateRepoOption: only the fields that are set are copied.
repositoryToAPI(req, ref) ==
    [Name |-> ref.RepositoryName,
     Description |-> IF req.Description # <<>> THEN req.Description[1] ELSE "",
     DefaultBranch |-> IF req.DefaultBranch # <<>> THEN req.DefaultBranch[1] ELSE "",
     Private |-> IF req.Visibility # <<>> THEN req.Visibility[1] = "private" ELSE FALSE,
     AutoInit |-> FALSE,
     License |-> ""]

\* Repository (API object) -> RepositoryInfo.
repositoryFromAPI(apiObj) ==
    [Description |-> <<apiObj.Description>>,
     DefaultBranch |-> <<apiObj.DefaultBranch>>,
     Visibility |-> <<IF apiObj.Private THEN "private" ELSE "public">>]

InfoEquals(a, b) == a = b

\* The repository handle: the context pointer, the API object and the reference.
newOrgRepository(ctx, apiObj, ref) == [ctx |-> ctx, r |-> apiObj, ref |-> ref]

HandleGet(h) == repositoryFromAPI(h.r)

\* Set stages the desired state on the handle's own copy of the object.
HandleSet(h, info) ==
    IF ValidateInfo(info) # ErrNone
    THEN [err |-> ValidateInfo(info), h |-> h]
    ELSE [err |-> ErrNone,
          h |-> [h EXCEPT
                   !.r.Description = IF info.Description # <<>>
                                     THEN info.Description[1] ELSE @,
                   !.r.DefaultBranch = IF info.DefaultBranch # <<>>
                                       THEN info.DefaultBranch[1] ELSE @,
                   !.r.Private = IF info.Visibility # <<>>
                                 THEN info.Visibility[1] = "private" ELSE @]]

----------------------------------------------------------------------------
(* client_repositories_org.go: the helpers around the SDK calls.  Each      *)
(* returns the service state it leaves and the SDK calls it issued.         *)

getRepo(rs, owner, repo, how) ==
    validateRepositoryAPIResp(SdkGetRepo(rs, owner, repo, how))

createRepo(rs, orgName, apiOpts, how) ==
    IF orgName # ""
    THEN LET r == SdkCreateOrgRepo(rs, orgName, apiOpts, how)
         IN  [repos |-> r.repos, out |-> validateRepositoryAPIResp(r.resp),
              call |-> "CreateOrgRepo"]
    ELSE LET r == SdkCreateRepo(rs, apiOpts, how)
         IN  [repos |-> r.repos, out |-> validateRepositoryAPIResp(r.resp),
              call |-> "CreateRepo"]

\* A slip: a template the table does not hold passed through as it is.
applyCreateOptions_passthrough(apiOpts, o) ==
    LET withInit == IF o.AutoInit # <<>>
                    THEN [apiOpts EXCEPT !.AutoInit = o.AutoInit[1]]
                    ELSE apiOpts
    IN  IF o.LicenseTemplate # <<>>
        THEN [withInit EXCEPT
                !.License = IF o.LicenseTemplate[1] \in DOMAIN knownLicenseTemplateMap
                            THEN knownLicenseTemplateMap[o.LicenseTemplate[1]]
                            ELSE o.LicenseTemplate[1]]
        ELSE withInit

\* createRepository, lines 169-176: the options applied to the translated request.
applyCreateOptions(apiOpts, o) ==
    LET withInit == IF o.AutoInit # <<>>
                    THEN [apiOpts EXCEPT !.AutoInit = o.AutoInit[1]]
                    ELSE apiOpts
    IN  IF o.LicenseTemplate # <<>>
        THEN [withInit EXCEPT
                !.License = MapLookup(knownLicenseTemplateMap, o.LicenseTemplate[1])]
        ELSE withInit

createRepository(rs, ref, orgName, req, o, how) ==
    LET v == ValidateAndDefaultInfo(req)
    IN  IF v.err # ErrNone
        THEN [repos |-> rs, obj |-> <<>>, err |-> v.err, calls |-> <<>>, sent |-> <<>>]
        ELSE LET apiOpts == applyCreateOptions(repositoryToAPI(v.req, ref), o)
                 r == createRepo(rs, orgName, apiOpts, how)
             IN  [repos |-> r.repos, obj |-> r.out.obj, err |-> r.out.err,
                  calls |-> <<r.call>>, sent |-> <<apiOpts>>]

updateRepo(rs, owner, repo, req, how) ==
    LET r == SdkEditRepo(rs, owner, repo, req, how)
    IN  [repos |-> r.repos, out |-> validateRepositoryAPIResp(r.resp)]

\* The handle's Update: an edit request from the handle's object, and the object
\* the service answers with kept on the handle.
HandleUpdate(rs, h, how) ==
    LET edit == [Description |-> h.r.Description,
                 DefaultBranch |-> h.r.DefaultBranch,
                 Private |-> h.r.Private]
        u == updateRepo(rs, h.ref.Organization, h.ref.RepositoryName, edit, how)
    IN  IF u.out.err # ErrNone
        THEN [repos |-> u.repos, err |-> u.out.err, h |-> h]
        ELSE [repos |-> u.repos, err |-> ErrNone, h |-> [h EXCEPT !.r = u.out.obj[1]]]

\* A slip: the destructive-actions flag not looked at.
deleteRepo_unguarded(rs, owner, repo, destructiveActions, how) ==
    LET r == SdkDeleteRepo(rs, owner, repo, how)
    IN  [repos |-> r.repos, err |-> handleHTTPError(r.resp, r.resp.err),
         calls |-> <<"DeleteRepo">>]

deleteRepo(rs, owner, repo, destructiveActions, how) ==
    IF ~destructiveActions
    THEN [repos |-> rs, err |-> ErrDestructiveCallDisallowed, calls |-> <<>>]
    ELSE LET r == SdkDeleteRepo(rs, owner, repo, how)
         IN  [repos |-> r.repos, err |-> handleHTTPError(r.resp, r.resp.err),
              calls |-> <<"DeleteRepo">>]

\* A slip: the desired state staged on the handle and never pushed.
reconcileRepository_noUpdate(rs, actual, req, how) ==
    IF InfoEquals(req, HandleGet(actual))
    THEN [repos |-> rs, actionTaken |-> FALSE, err |-> ErrNone,
          actual |-> actual, calls |-> <<>>]
    ELSE LET s == HandleSet(actual, req)
         IN  [repos |-> rs, actionTaken |-> s.err = ErrNone, err |-> s.err,
              actual |-> s.h, calls |-> <<>>]

\* A slip: no comparison, the update pushed whatever the actual state.
reconcileRepository_always(rs, actual, req, how) ==
    LET s == HandleSet(actual, req)
    IN  IF s.err # ErrNone
        THEN [repos |-> rs, actionTaken |-> FALSE, err |-> s.err,
              actual |-> actual, calls |-> <<>>]
        ELSE LET u == HandleUpdate(rs, s.h, how)
             IN  [repos |-> u.repos, actionTaken |-> TRUE, err |-> u.err,
                  actual |-> u.h, calls |-> <<"EditRepo">>]

reconcileRepository(rs, actual, req, how) ==
    IF InfoEquals(req, HandleGet(actual))
    THEN [repos |-> rs, actionTaken |-> FALSE, err |-> ErrNone,
          actual |-> actual, calls |-> <<>>]
    ELSE LET s == HandleSet(actual, req)
         IN  IF s.err # ErrNone
             THEN [repos |-> rs, actionTaken |-> FALSE, err |-> s.err,
                   actual |-> actual, calls |-> <<>>]
             ELSE LET u == HandleUpdate(rs, s.h, how)
                  IN  [repos |-> u.repos, actionTaken |-> TRUE, err |-> u.err,
                       actual |-> u.h, calls |-> <<"EditRepo">>]

----------------------------------------------------------------------------
(* Listing.  A page is what one ListOrgRepos call answers: its items and    *)
(* whether the SDK reported an error with them.  Past the last page the     *)
(* service answers with an empty page.                                      *)

EmptyPage == [items |-> <<>>, err |-> FALSE]

SdkListOrgRepos(pages, page) ==
    IF page <= Len(pages) THEN pages[page] ELSE EmptyPage

\* A slip: a page's items put in front of the list instead of after it.
listPageFn_prepend(pages, page, apiObjs) ==
    LET p == SdkListOrgRepos(pages, page)
    IN  IF Len(p.items) > 0
        THEN [resp |-> <<page>>, err |-> p.err, apiObjs |-> p.items \o apiObjs]
        ELSE [resp |-> <<>>, err |-> FALSE, apiObjs |-> apiObjs]

\* The callback listOrgRepos hands to allPages, lines 141-149: resp is the
\* *gitea.Response it returns, apiObjs the list it appends to.
listPageFn(pages, page, apiObjs) ==
    LET p == SdkListOrgRepos(pages, page)
    IN  IF Len(p.items) > 0
        THEN [resp |-> <<page>>, err |-> p.err, apiObjs |-> apiObjs \o p.items]
        ELSE [resp |-> <<>>, err |-> FALSE, apiObjs |-> apiObjs]

\* allPages: calls the callback page after page, until it returns an error or
\* no response.
RECURSIVE allPages(_, _, _, _)
allPages(pages, page, apiObjs, fetched) ==
    LET f == listPageFn(pages, page, apiObjs)
    IN  IF f.err
        THEN [err |-> ErrHTTP, apiObjs |-> f.apiObjs, fetched |-> Append(fetched, page)]
        ELSE IF f.resp = <<>>
        THEN [err |-> ErrNone, apiObjs |-> f.apiObjs, fetched |-> Append(fetched, page)]
        ELSE allPages(pages, page + 1, f.apiObjs, Append(fetched, page))

validateRepositoryObjects(apiObjs) ==
    IF \E i \in 1..Len(apiObjs) : validateRepositoryAPI(apiObjs[i]) # ErrNone
    THEN [apiObjs |-> <<>>, err |-> ErrValidation]
    ELSE [apiObjs |-> apiObjs, err |-> ErrNone]

listOrgRepos(pages, org) ==
    LET a == allPages(pages, 1, <<>>, <<>>)
    IN  IF a.err # ErrNone
        THEN [apiObjs |-> <<>>, err |-> a.err, fetched |-> a.fetched]
        ELSE LET v == validateRepositoryObjects(a.apiObjs)
             IN  [apiObjs |-> v.apiObjs, err |-> v.err, fetched |-> a.fetched]

----------------------------------------------------------------------------
(* OrgRepositoriesClient: Get, List, Create, Reconcile.                     *)

OrgGet(rs, ref, how) ==
    LET c == Ctx("orgRepos")
    IN  IF validateOrgRepositoryRef(ref, c.domain) # ErrNone
        THEN [handle |-> <<>>, err |-> validateOrgRepositoryRef(ref, c.domain),
              calls |-> <<>>]
        ELSE LET g == getRepo(rs, ref.Organization, ref.RepositoryName, how)
             IN  IF g.err # ErrNone
                 THEN [handle |-> <<>>, err |-> g.err, calls |-> <<"GetRepo">>]
                 ELSE [handle |-> <<newOrgRepository(client["orgRepos"], g.obj[1], ref)>>,
                       err |-> ErrNone, calls |-> <<"GetRepo">>]

OrgList(pages, ref) ==
    LET c == Ctx("orgRepos")
    IN  IF validateOrganizationRef(ref, c.domain) # ErrNone
        THEN [repos |-> <<>>, err |-> validateOrganizationRef(ref, c.domain),
              fetched |-> <<>>]
        ELSE LET l == listOrgRepos(pages, ref.Organization)
             IN  IF l.err # ErrNone
                 THEN [repos |-> <<>>, err |-> l.err, fetched |-> l.fetched]
                 ELSE [repos |-> [i \in 1..Len(l.apiObjs) |->
                                    newOrgRepository(client["orgRepos"], l.apiObjs[i],
                                        [Domain |-> ref.Domain,
                                         Organization |-> ref.Organization,
                                         RepositoryName |-> l.apiObjs[i].Name])],
                       err |-> ErrNone, fetched |-> l.fetched]

OrgCreate(rs, ref, req, o, how) ==
    LET c == Ctx("orgRepos")
    IN  IF validateOrgRepositoryRef(ref, c.domain) # ErrNone
        THEN [repos |-> rs, handle |-> <<>>,
              err |-> validateOrgRepositoryRef(ref, c.domain),
              calls |-> <<>>, sent |-> <<>>]
        ELSE LET r == createRepository(rs, ref, ref.Organization, req, o, how)
             IN  IF r.err # ErrNone
                 THEN [repos |-> r.repos, handle |-> <<>>, err |-> r.err,
                       calls |-> r.calls, sent |-> r.sent]
                 ELSE [repos |-> r.repos,
                       handle |-> <<newOrgRepository(client["orgRepos"], r.obj[1], ref)>>,
                       err |-> ErrNone, calls |-> r.calls, sent |-> r.sent]

\* A slip: any error of the Get taken for NotFound.
OrgReconcile_createOnAnyError(rs, ref, req, o, fault) ==
    LET v == ValidateAndDefaultInfo(req)
    IN  IF v.err # ErrNone
        THEN [repos |-> rs, handle |-> <<>>, actionTaken |-> FALSE, err |-> v.err,
              calls |-> <<>>, sent |-> <<>>]
        ELSE LET g == OrgGet(rs, ref, FaultOf(fault, 1))
             IN  IF g.err # ErrNone
                 THEN LET cr == OrgCreate(rs, ref, v.req, o, FaultOf(fault, 2))
                      IN  [repos |-> cr.repos, handle |-> cr.handle,
                           actionTaken |-> TRUE, err |-> cr.err,
                           calls |-> g.calls \o cr.calls, sent |-> cr.sent]
                 ELSE LET rr == reconcileRepository(rs, g.handle[1], v.req,
                                                    FaultOf(fault, 2))
                      IN  [repos |-> rr.repos, handle |-> <<rr.actual>>,
                           actionTaken |-> rr.actionTaken, err |-> rr.err,
                           calls |-> g.calls \o rr.calls, sent |-> <<>>]

\* fault.at = 1 hits the Get, fault.at = 2 the create or the edit that follows.
OrgReconcile(rs, ref, req, o, fault) ==
    LET v == ValidateAndDefaultInfo(req)
    IN  IF v.err # ErrNone
        THEN [repos |-> rs, handle |-> <<>>, actionTaken |-> FALSE, err |-> v.err,
              calls |-> <<>>, sent |-> <<>>]
        ELSE LET g == OrgGet(rs, ref, FaultOf(fault, 1))
             IN  IF g.err # ErrNone
                 THEN IF g.err = ErrNotFound
                      THEN LET cr == OrgCreate(rs, ref, v.req, o, FaultOf(fault, 2))
                           IN  [repos |-> cr.repos, handle |-> cr.handle,
                                actionTaken |-> TRUE, err |-> cr.err,
                                calls |-> g.calls \o cr.calls, sent |-> cr.sent]
                      ELSE [repos |-> rs, handle |-> <<>>, actionTaken |-> FALSE,
                            err |-> g.err, calls |-> g.calls, sent |-> <<>>]
                 ELSE LET rr == reconcileRepository(rs, g.handle[1], v.req,
                                                    FaultOf(fault, 2))
                      IN  [repos |-> rr.repos, handle |-> <<rr.actual>>,
                           actionTaken |-> rr.actionTaken, err |-> rr.err,
                           calls |-> g.calls \o rr.calls, sent |-> <<>>]

----------------------------------------------------------------------------
(* The state after construction, and the record of a call.                  *)

NoRef == [Domain |-> "", Organization |-> "", RepositoryName |-> ""]
NoInfo == [Description |-> <<>>, DefaultBranch |-> <<>>, Visibility |-> <<>>]
NoRepos == [n \in {} |-> NoRef]

Call(op, ref, req, fault, handles, actionTaken, err, calls, value) ==
    [op |-> op, ref |-> ref, req |-> req, fault |-> fault, handles |-> handles,
     actionTaken |-> actionTaken, err |-> err, calls |-> calls, value |-> value]

NoFault == [at |-> 0, how |-> "none"]

\* The references a caller passes: of the client's domain or of a foreign one.
RefSet ==
    [Domain : {Ctx("orgRepos").domain}, Organization : {OrgName}, RepositoryName : Names]
    \cup [Domain : {ForeignDomain}, Organization : {OrgName}, RepositoryName : {"repo-a"}]

OrgRefSet ==
    [Domain : {Ctx("orgRepos").domain, ForeignDomain}, Organization : {OrgName}]

Procs == {"c1", "c2"}

IdleList ==
    /\ listIn = [pages |-> <<>>, ref |-> [Domain |-> "", Organization |-> ""]]
    /\ listOut = [done |-> FALSE, repos |-> <<>>, err |-> ErrNone, fetched |-> <<>>]

IdleLicense ==
    /\ licIn = [apiOpts |-> repositoryToAPI(NoInfo, NoRef), o |-> NoCreateOptions]
    /\ licOut = <<>>

IdleConc ==
    /\ pc = [p \in Procs |-> "idle"]
    /\ want = [ref |-> NoRef, req |-> [p \in Procs |-> NoInfo]]
    /\ got = [p \in Procs |->
                [handle |-> <<>>, actionTaken |-> FALSE, err |-> ErrNone, calls |-> <<>>]]
    /\ created = [n \in Names |-> 0]

Constructed(o) ==
    /\ opts = o
    /\ heap = NewClient(Token, o).heap
    /\ client = NewClient(Token, o).client
    /\ repos = NoRepos
    /\ last = Call("NewClient", NoRef, NoInfo, NoFault, <<>>, FALSE, ErrNone, <<>>, <<>>)

Init ==
    /\ \E o \in ClientOptionSets : Constructed(o)
    /\ IdleList /\ IdleLicense /\ IdleConc

----------------------------------------------------------------------------
(* One action per call on the client; each is the whole call.               *)

Frame == UNCHANGED <<opts, heap, client, listIn, listOut, licIn, licOut,
                     pc, want, got, created>>

Get(ref, how) ==
    LET g == OrgGet(repos, ref, how)
    IN  /\ last' = Call("Get", ref, NoInfo, [at |-> 1, how |-> how], g.handle,
                        FALSE, g.err, g.calls, <<>>)
        /\ UNCHANGED repos
        /\ Frame

Create(ref, req, o, how) ==
    LET r == OrgCreate(repos, ref, req, o, how)
    IN  /\ last' = Call("Create", ref, req, [at |-> 1, how |-> how], r.handle,
                        FALSE, r.err, r.calls, r.sent)
        /\ repos' = r.repos
        /\ Frame

Reconcile(ref, req, fault) ==
    LET r == OrgReconcile(repos, ref, req, NoCreateOptions, fault)
    IN  /\ last' = Call("Reconcile", ref, req, fault, r.handle, r.actionTaken,
                        r.err, r.calls, r.sent)
        /\ repos' = r.repos
        /\ Frame

\* Delete on a repository handle: deleteRepo with the context's flag.
Delete(ref, how) ==
    LET c == Ctx("orgRepos")
        d == deleteRepo(repos, ref.Organization, ref.RepositoryName,
                        c.destructiveActions, how)
    IN  /\ ref.Domain = c.domain
        /\ last' = Call("Delete", ref, NoInfo, [at |-> 1, how |-> how], <<>>,
                        FALSE, d.err, d.calls, <<>>)
        /\ repos' = d.repos
        /\ Frame

\* The pages the service answers a listing of its repositories with, one
\* repository a page, in the order of NameOrder; the fault hits page fault.at.
NameOrder == <<"repo-a", "repo-b">>

ServicePages(rs, fault) ==
    LET existing == SelectSeq(NameOrder, LAMBDA n : n \in DOMAIN rs)
        len == IF fault.at > Len(existing) THEN fault.at ELSE Len(existing)
    IN  [i \in 1..len |->
            IF i = fault.at /\ fault.how = "transport"
            THEN [items |-> <<>>, err |-> TRUE]
            ELSE IF i > Len(existing) THEN EmptyPage
            ELSE IF i = fault.at /\ fault.how = "malformed"
            THEN [items |-> <<Malform(rs[existing[i]])>>, err |-> FALSE]
            ELSE [items |-> <<rs[existing[i]]>>, err |-> FALSE]]

List(ref, fault) ==
    LET l == OrgList(ServicePages(repos, fault), ref)
    IN  /\ last' = Call("List", [Domain |-> ref.Domain, Organization |-> ref.Organization,
                                 RepositoryName |-> ""],
                        NoInfo, fault, l.repos, FALSE, l.err,
                        [i \in 1..Len(l.fetched) |-> "ListOrgRepos"], <<>>)
        /\ UNCHANGED repos
        /\ Frame

SupportedDomain ==
    /\ last' = Call("SupportedDomain", NoRef, NoInfo, NoFault, <<>>, FALSE, ErrNone,
                    <<>>, <<Ctx("clientContext").domain>>)
    /\ UNCHANGED repos
    /\ Frame

GetProviderID ==
    /\ last' = Call("ProviderID", NoRef, NoInfo, NoFault, <<>>, FALSE, ErrNone,
                    <<>>, <<ProviderID>>)
    /\ UNCHANGED repos
    /\ Frame

Raw ==
    /\ last' = Call("Raw", NoRef, NoInfo, NoFault, <<>>, FALSE, ErrNone,
                    <<>>, <<Ctx("clientContext").c>>)
    /\ UNCHANGED repos
    /\ Frame

HasTokenPermission ==
    /\ last' = Call("HasTokenPermission", NoRef, NoInfo, NoFault, <<>>, FALSE,
                    ErrNoProviderSupport, <<>>, <<FALSE>>)
    /\ UNCHANGED repos
    /\ Frame

Hows == {"none", "transport", "malformed"}

Next ==
    \/ \E ref \in RefSet, how \in Hows : Get(ref, how)
    \/ \E ref \in OrgRefSet, fault \in Faults : List(ref, fault)
    \/ \E ref \in RefSet, req \in InfoSet, how \in Hows :
           Create(ref, req, NoCreateOptions, how)
    \/ \E ref \in RefSet, req \in InfoSet, fault \in Faults : Reconcile(ref, req, fault)
    \/ \E ref \in RefSet, how \in Hows : Delete(ref, how)
    \/ SupportedDomain
    \/ GetProviderID
    \/ Raw
    \/ HasTokenPermission

Spec == Init /\ [][Next]_vars

----------------------------------------------------------------------------
(* Listing over any pages the SDK may answer with: List as a function of    *)
(* the page sequence.                                                       *)

ListObj(name) ==
    [Name |-> name, Description |-> "", DefaultBranch |-> "main", Private |-> TRUE]

ListObjs == {ListObj("repo-a"), ListObj("repo-b"), Malform(ListObj("repo-a"))}

ItemSeqs == UNION {[1..n -> ListObjs] : n \in 0..MaxPageLen}

PageSet == [items : ItemSeqs, err : BOOLEAN]

PageSeqs == UNION {[1..n -> PageSet] : n \in 0..MaxPages}

DefaultOptions == [Domain |-> <<>>, EnableDestructiveAPICalls |-> <<>>]

InitList ==
    /\ Constructed(DefaultOptions)
    /\ listIn \in [pages : PageSeqs,
                   ref : {[Domain |-> DefaultDomain, Organization |-> OrgName]}]
    /\ listOut = [done |-> FALSE, repos |-> <<>>, err |-> ErrNone, fetched |-> <<>>]
    /\ IdleLicense /\ IdleConc

ListPages ==
    LET l == OrgList(listIn.pages, listIn.ref)
    IN  /\ ~listOut.done
        /\ listOut' = [done |-> TRUE, repos |-> l.repos, err |-> l.err,
                       fetched |-> l.fetched]
        /\ UNCHANGED <<opts, heap, client, repos, last, listIn, licIn, licOut,
                       pc, want, got, created>>

NextList == ListPages

SpecList == InitList /\ [][NextList]_vars

----------------------------------------------------------------------------
(* The create options applied to a translated request: lines 169-176 of     *)
(* createRepository as a function of the request and the options.           *)

LicenseTemplates == {"apache-2.0", "mit", "gpl-3.0", "bsd-3-clause", "MIT", ""}

CreateOptionSets ==
    [AutoInit : {<<>>, <<TRUE>>, <<FALSE>>},
     LicenseTemplate : {<<>>} \cup {<<t>> : t \in LicenseTemplates}]

\* The requests the translation may hand over, and requests whose license and
\* auto-init fields are already set.
TranslatedRequests ==
    { [r EXCEPT !.License = l, !.AutoInit = a] :
        r \in { repositoryToAPI(ValidateAndDefaultInfo(i).req,
                                [Domain |-> DefaultDomain, Organization |-> OrgName,
                                 RepositoryName |-> "repo-a"]) :
                  i \in {j \in InfoSet : ValidateAndDefaultInfo(j).err = ErrNone} },
        l \in {"", "Unlicense"}, a \in BOOLEAN }

InitLicense ==
    /\ Constructed(DefaultOptions)
    /\ licIn \in [apiOpts : TranslatedRequests, o : CreateOptionSets]
    /\ licOut = <<>>
    /\ IdleList /\ IdleConc

ApplyOptions ==
    /\ licOut = <<>>
    /\ licOut' = <<applyCreateOptions(licIn.apiOpts, licIn.o)>>
    /\ UNCHANGED <<opts, heap, client, repos, last, listIn, listOut, licIn,
                   pc, want, got, created>>

NextLicense == ApplyOptions

SpecLicense == InitLicense /\ [][NextLicense]_vars

----------------------------------------------------------------------------
(* Two clients, constructed with the same options, each running Reconcile   *)
(* on the same reference.  A Reconcile is split at its SDK calls: the Get   *)
(* (with the comparison that follows it, which issues no call), then the    *)
(* create or the edit.                                                      *)

ValidInfoSet == {i \in InfoSet : ValidateAndDefaultInfo(i).err = ErrNone}

InitConc ==
    /\ Constructed(DefaultOptions)
    /\ IdleList /\ IdleLicense
    /\ want \in [ref : [Domain : {DefaultDomain}, Organization : {OrgName},
                        RepositoryName : Names],
                 req : [Procs -> ValidInfoSet]]
    /\ pc = [p \in Procs |-> "start"]
    /\ got = [p \in Procs |->
                [handle |-> <<>>, actionTaken |-> FALSE, err |-> ErrNone, calls |-> <<>>]]
    /\ created = [n \in Names |-> 0]

ConcFrame == UNCHANGED <<opts, heap, client, last, listIn, listOut, licIn, licOut, want>>

Done(p, handle, actionTaken, err, calls) ==
    /\ pc' = [pc EXCEPT ![p] = "done"]
    /\ got' = [got EXCEPT ![p] = [handle |-> handle, actionTaken |-> actionTaken,
                                  err |-> err, calls |-> calls]]

\* Reconcile up to its second SDK call: validation, Get, and for a repository
\* that exists the comparison and the Set of reconcileRepository.
RGet(p) ==
    LET v == ValidateAndDefaultInfo(want.req[p])
        g == OrgGet(repos, want.ref, "none")
    IN  /\ pc[p] = "start"
        /\ IF v.err # ErrNone THEN Done(p, <<>>, FALSE, v.err, <<>>)
           ELSE IF g.err = ErrNotFound
           THEN /\ pc' = [pc EXCEPT ![p] = "create"]
                /\ got' = [got EXCEPT ![p].calls = g.calls]
           ELSE IF g.err # ErrNone THEN Done(p, <<>>, FALSE, g.err, g.calls)
           ELSE IF InfoEquals(v.req, HandleGet(g.handle[1]))
           THEN Done(p, g.handle, FALSE, ErrNone, g.calls)
           ELSE IF HandleSet(g.handle[1], v.req).err # ErrNone
           THEN Done(p, g.handle, FALSE, HandleSet(g.handle[1], v.req).err, g.calls)
           ELSE /\ pc' = [pc EXCEPT ![p] = "update"]
                /\ got' = [got EXCEPT ![p].calls = g.calls,
                                      ![p].handle = <<HandleSet(g.handle[1], v.req).h>>]
        /\ UNCHANGED <<repos, created>>
        /\ ConcFrame

\* A slip: a create that lost the race reported as a success.
RCreate_swallow(p) ==
    LET v == ValidateAndDefaultInfo(want.req[p])
        cr == OrgCreate(repos, want.ref, v.req, NoCreateOptions, "none")
        name == want.ref.RepositoryName
    IN  /\ pc[p] = "create"
        /\ repos' = cr.repos
        /\ created' = [created EXCEPT ![name] =
                          IF name \notin DOMAIN repos /\ name \in DOMAIN cr.repos
                          THEN @ + 1 ELSE @]
        /\ Done(p, cr.handle, TRUE,
                IF cr.err = ErrAlreadyExists THEN ErrNone ELSE cr.err,
                got[p].calls \o cr.calls)
        /\ ConcFrame

\* The create of the NotFound branch: its result is returned with actionTaken = true.
RCreate(p) ==
    LET v == ValidateAndDefaultInfo(want.req[p])
        cr == OrgCreate(repos, want.ref, v.req, NoCreateOptions, "none")
        name == want.ref.RepositoryName
    IN  /\ pc[p] = "create"
        /\ repos' = cr.repos
        /\ created' = [created EXCEPT ![name] =
                          IF name \notin DOMAIN repos /\ name \in DOMAIN cr.repos
                          THEN @ + 1 ELSE @]
        /\ Done(p, cr.handle, TRUE, cr.err, got[p].calls \o cr.calls)
        /\ ConcFrame

\* The Update of reconcileRepository, on the handle staged by Set.
RUpdate(p) ==
    LET u == HandleUpdate(repos, got[p].handle[1], "none")
    IN  /\ pc[p] = "update"
        /\ repos' = u.repos
        /\ UNCHANGED created
        /\ Done(p, <<u.h>>, TRUE, u.err, Append(got[p].calls, "EditRepo"))
        /\ ConcFrame

NextConc == \E p \in Procs : RGet(p) \/ RCreate(p) \/ RUpdate(p)

SpecConc == InitConc /\ [][NextConc]_vars

----------------------------------------------------------------------------
(* Properties.                                                              *)

ValidRef(ref) == validateOrgRepositoryRef(ref, Ctx("orgRepos").domain) = ErrNone
ValidInfo(req) == ValidateAndDefaultInfo(req).err = ErrNone
Desired(req) == ValidateAndDefaultInfo(req).req
Exists(rs, ref) == ref.RepositoryName \in DOMAIN rs
Actual(rs, ref) == repositoryFromAPI(rs[ref.RepositoryName])
InSeq(x, q) == \E i \in 1..Len(q) : q[i] = x

\* A Reconcile with a valid reference and desired state that no SDK call failed.
CleanReconcile(c) ==
    /\ c.op = "Reconcile"
    /\ c.fault = NoFault
    /\ ValidRef(c.ref)
    /\ ValidInfo(c.req)

\* C1: Reconcile is idempotent.  With a valid reference, a valid desired state
\* and no service failure: a Reconcile that starts where the repository is
\* absent or differs from the desired state returns actionTaken = true with no
\* error and leaves the actual state equal to the desired state; and a Reconcile
\* that directly follows a Reconcile of the same reference and desired state
\* returns actionTaken = false with no error and leaves the service as it was,
\* the actual state still equal to the desired state.
ReconcileIdempotent ==
    [][ /\ ( /\ CleanReconcile(last')
             /\ (~Exists(repos, last'.ref)
                   \/ Actual(repos, last'.ref) # Desired(last'.req)) )
           => /\ last'.actionTaken
              /\ last'.err = ErrNone
              /\ Exists(repos', last'.ref)
              /\ Actual(repos', last'.ref) = Desired(last'.req)
        /\ ( /\ CleanReconcile(last) /\ CleanReconcile(last')
             /\ last'.ref = last.ref /\ last'.req = last.req )
           => /\ ~last'.actionTaken
              /\ last'.err = ErrNone
              /\ repos' = repos
              /\ Exists(repos', last'.ref)
              /\ Actual(repos', last'.ref) = Desired(last'.req)
      ]_vars

\* C1 witness: a Reconcile without failures returned actionTaken = false and the
\* actual state is the desired one (reached only once a create or an update has
\* made it so).
ReconcileSecondCallReached ==
    /\ CleanReconcile(last)
    /\ ~last.actionTaken
    /\ last.err = ErrNone
    /\ Exists(repos, last.ref)
    /\ Actual(repos, last.ref) = Desired(last.req)
    /\ last.req # NoInfo

\* C2: deletion is gated.  A client constructed without the toggle has the flag
\* unset; and with the flag unset every delete returns
\* ErrDestructiveCallDisallowed without calling DeleteRepo, and no step of the
\* client removes a repository that exists.
DeletionGated ==
    [][ /\ (opts.EnableDestructiveAPICalls = <<>>
              => ~Ctx("orgRepos").destructiveActions)
        /\ ~Ctx("orgRepos").destructiveActions
           => /\ last'.op = "Delete"
                  => /\ last'.err = ErrDestructiveCallDisallowed
                     /\ ~InSeq("DeleteRepo", last'.calls)
              /\ \A n \in DOMAIN repos : n \in DOMAIN repos'
      ]_vars

\* C2 witness: a delete of a repository that exists was refused.
DeleteRefusedReached ==
    /\ last.op = "Delete"
    /\ ~Ctx("orgRepos").destructiveActions
    /\ last.err = ErrDestructiveCallDisallowed
    /\ Exists(repos, last.ref)

\* C5: with a valid reference and a service that answers, Create (of a valid
\* desired state) on a name that exists fails with ErrAlreadyExists, returns no
\* handle and leaves the service unchanged; Get on a name that does not exist
\* fails with ErrNotFound and returns no handle.
CreateExistsGetMissing ==
    [][ /\ ( /\ last'.op = "Create" /\ ValidRef(last'.ref) /\ ValidInfo(last'.req)
             /\ Exists(repos, last'.ref) )
           => /\ repos' = repos
              /\ last'.handles = <<>>
              /\ last'.fault.how # "transport" => last'.err = ErrAlreadyExists
        /\ ( /\ last'.op = "Get" /\ ValidRef(last'.ref)
             /\ ~Exists(repos, last'.ref) /\ last'.fault.how # "transport" )
           => /\ last'.err = ErrNotFound
              /\ last'.handles = <<>>
      ]_vars

\* C5 witness: a Create collided with a repository that exists.
CreateCollisionReached ==
    /\ last.op = "Create"
    /\ last.err = ErrAlreadyExists
    /\ Exists(repos, last.ref)

\* C6: Reconcile on a repository that exists and whose actual state equals the
\* validated and defaulted desired state returns actionTaken = false, issues no
\* create and no edit call and leaves the whole service unchanged; it returns no
\* error unless its Get failed.
ReconcileNoOp ==
    [][ ( /\ last'.op = "Reconcile" /\ ValidRef(last'.ref) /\ ValidInfo(last'.req)
          /\ Exists(repos, last'.ref)
          /\ Actual(repos, last'.ref) = Desired(last'.req) )
        => /\ ~last'.actionTaken
           /\ \A i \in 1..Len(last'.calls) : last'.calls[i] = "GetRepo"
           /\ repos' = repos
           /\ FaultOf(last'.fault, 1) = "none" => last'.err = ErrNone
      ]_vars

\* C6 witness: a no-op Reconcile, with another repository in the service.
ReconcileNoOpReached ==
    /\ last.op = "Reconcile"
    /\ ~last.actionTaken
    /\ last.err = ErrNone
    /\ last.calls = <<"GetRepo">>
    /\ DOMAIN repos = Names

\* C8: the context is immutable and shared.  No step writes the context, the
\* options it was built from or the pointers to it; every (sub-)client points to
\* the one context; and its fields are those construction derives from the
\* options.
ContextImmutable ==
    [][ /\ heap' = heap /\ client' = client /\ opts' = opts
        /\ \A s \in SubClients : client[s] = client["clientContext"]
        /\ Ctx("orgRepos").domain =
              (IF opts.Domain = <<>> THEN DefaultDomain ELSE opts.Domain[1])
        /\ Ctx("orgRepos").destructiveActions =
              (opts.EnableDestructiveAPICalls = <<TRUE>>)
        /\ Ctx("orgRepos").c.token = Token
        /\ last'.op = "SupportedDomain" => last'.value = <<Ctx("orgRepos").domain>>
        /\ last'.op = "Raw" => last'.value = <<Ctx("orgRepos").c>>
      ]_vars

\* C8 witness: the service was written to, and SupportedDomain then reported the
\* domain given at construction.
ContextReadAfterWritesReached ==
    /\ last.op = "SupportedDomain"
    /\ opts.Domain # <<>>
    /\ last.value = opts.Domain
    /\ DOMAIN repos # {}

\* C9: a failed step aborts Reconcile.  If the Get fails with an error other
\* than ErrNotFound, Reconcile returns that error with actionTaken = false,
\* issues no create or edit call and leaves the service unchanged; if its second
\* SDK call (the create or the edit) fails it returns that call's error and
\* issues no further call.
ReconcileAborts ==
    [][ ( /\ last'.op = "Reconcile" /\ ValidInfo(last'.req) )
        => LET g == OrgGet(repos, last'.ref, FaultOf(last'.fault, 1))
           IN  /\ g.err \notin {ErrNone, ErrNotFound}
                  => /\ last'.err = g.err
                     /\ ~last'.actionTaken
                     /\ last'.calls = g.calls
                     /\ Len(last'.calls) <= 1
                     /\ repos' = repos
               /\ (last'.fault.at = 2 /\ Len(last'.calls) = 2)
                  => /\ last'.err # ErrNone
                     /\ last'.err = (IF last'.fault.how = "transport"
                                     THEN ErrHTTP ELSE ErrValidation)
                     /\ last'.calls[2] \in {"CreateOrgRepo", "EditRepo"}
               /\ Len(last'.calls) <= 2
      ]_vars

\* C9 witness: the second SDK call of a Reconcile failed.
ReconcileSecondCallFailedReached ==
    /\ last.op = "Reconcile"
    /\ last.fault.at = 2
    /\ Len(last.calls) = 2
    /\ last.err # ErrNone

----------------------------------------------------------------------------
(* Properties of List over any page sequence (SpecList).                    *)

\* The first page that holds no items (the page after the last, at the latest).
FirstEmpty(pages) ==
    CHOOSE k \in 1..(Len(pages) + 1) :
        /\ SdkListOrgRepos(pages, k).items = <<>>
        /\ \A j \in 1..(k - 1) : SdkListOrgRepos(pages, j).items # <<>>

\* The items of pages 1..k, page after page.
RECURSIVE ItemsUpTo(_, _)
ItemsUpTo(pages, k) ==
    IF k = 0 THEN <<>> ELSE ItemsUpTo(pages, k - 1) \o pages[k].items

\* C3, as claimed: whenever a ListOrgRepos call that List made reported an
\* error, List returns an error and no list.
ListPageFailureAborts ==
    listOut.done
    => ( (\E i \in 1..Len(listOut.fetched) :
              SdkListOrgRepos(listIn.pages, listOut.fetched[i]).err)
         => listOut.err # ErrNone /\ listOut.repos = <<>> )

\* C4: List fetches pages 1, 2, ... once each and never past the first page
\* without items; when it returns a list, it has fetched up to that page and the
\* list is the items of all earlier pages in the order returned; and it returns
\* a list whenever none of those pages came with an error and all their objects
\* are complete.
ListConcatenates ==
    listOut.done
    => LET k == FirstEmpty(listIn.pages)
           expected == ItemsUpTo(listIn.pages, k - 1)
       IN  /\ \A i \in 1..Len(listOut.fetched) : listOut.fetched[i] = i
           /\ Len(listOut.fetched) <= k
           /\ listOut.err = ErrNone
              => /\ Len(listOut.fetched) = k
                 /\ Len(listOut.repos) = Len(expected)
                 /\ \A i \in 1..Len(expected) :
                       /\ listOut.repos[i].r = expected[i]
                       /\ listOut.repos[i].ref.RepositoryName = expected[i].Name
           /\ ( /\ \A j \in 1..(k - 1) : ~listIn.pages[j].err
                /\ \A i \in 1..Len(expected) :
                      validateRepositoryAPI(expected[i]) = ErrNone )
              => listOut.err = ErrNone

\* C4 witness: two pages with different items, then the page without items.
ListTwoPagesReached ==
    /\ listOut.done
    /\ listOut.err = ErrNone
    /\ listOut.fetched = <<1, 2, 3>>
    /\ Len(listOut.repos) >= 2
    /\ listOut.repos[1].r # listOut.repos[Len(listOut.repos)].r

----------------------------------------------------------------------------
(* Properties of the create options (SpecLicense).                          *)

\* C7, as claimed: the three templates of the table are mapped, any other
\* template supplied is passed through as it is, and without a template the
\* license of the translated request stays.
LicensePassedThrough ==
    licOut # <<>>
    => IF licIn.o.LicenseTemplate = <<>>
       THEN licOut[1].License = licIn.apiOpts.License
       ELSE LET t == licIn.o.LicenseTemplate[1]
            IN  licOut[1].License =
                   (CASE t = "apache-2.0" -> "Apache-2.0"
                      [] t = "mit" -> "MIT"
                      [] t = "gpl-3.0" -> "GPL-3.0-only"
                      [] OTHER -> t)

\* C7, amended: the three templates of the table are mapped, any other template
\* supplied gives the empty license, and without a template the license of the
\* translated request stays.
LicenseMapped ==
    licOut # <<>>
    => IF licIn.o.LicenseTemplate = <<>>
       THEN licOut[1].License = licIn.apiOpts.License
       ELSE LET t == licIn.o.LicenseTemplate[1]
            IN  licOut[1].License =
                   (CASE t = "apache-2.0" -> "Apache-2.0"
                      [] t = "mit" -> "MIT"
                      [] t = "gpl-3.0" -> "GPL-3.0-only"
                      [] OTHER -> "")

\* C7 witness: a template the table does not hold, applied to a request that
\* had a license.
LicenseUnknownReached ==
    /\ licOut # <<>>
    /\ licIn.o.LicenseTemplate = <<"bsd-3-clause">>
    /\ licIn.apiOpts.License = "Unlicense"
    /\ licOut[1].License = ""

----------------------------------------------------------------------------
(* Properties of two concurrent Reconciles (SpecConc).                      *)

IssuedCreate(p) == InSeq("CreateOrgRepo", got[p].calls)

\* C10: when both clients have reconciled the same absent reference to the same
\* desired state, the service created the repository exactly once, its state is
\* the desired one, exactly one client's create succeeded, and every other
\* client that issued a create got ErrAlreadyExists; a client that issued no
\* create returned no error.
ConcurrentReconcileSafe ==
    ( /\ \A p \in Procs : pc[p] = "done"
      /\ \A p, q \in Procs : want.req[p] = want.req[q] )
    => /\ created[want.ref.RepositoryName] = 1
       /\ Exists(repos, want.ref)
       /\ \A p \in Procs : Actual(repos, want.ref) = Desired(want.req[p])
       /\ Cardinality({p \in Procs : IssuedCreate(p) /\ got[p].err = ErrNone}) = 1
       /\ \A p \in Procs :
             /\ (IssuedCreate(p) /\ got[p].err # ErrNone)
                => got[p].err = ErrAlreadyExists /\ got[p].handle = <<>>
             /\ ~IssuedCreate(p) => got[p].err = ErrNone /\ ~got[p].actionTaken

\* C10 witness: both clients saw the repository absent, and the one whose create
\* came second got ErrAlreadyExists.
ConcurrentLoserReached ==
    /\ \A p \in Procs : pc[p] = "done" /\ IssuedCreate(p)
    /\ \A p, q \in Procs : want.req[p] = want.req[q]
    /\ \E p \in Procs : got[p].err = ErrAlreadyExists

=============================================================================
